---- MODULE Spec2Model ----
(***************************************************************************)
(* Model of log_parser.py: parse_auth_log (one forward pass over the lines *)
(* of an auth log, two regular expressions) and main (existence check,     *)
(* scan, summary, two JSON output files beside the log).                   *)
(*                                                                         *)
(* Text is modelled as a sequence of tokens.  A token is an atomic piece   *)
(* of text; the alphabet is chosen so that no literal of the two regular   *)
(* expressions can arise across a token boundary, hence matching on tokens *)
(* is matching on the characters they stand for.                           *)
(***************************************************************************)
EXTENDS Naturals, Sequences, FiniteSets

VARIABLES fs, logName, pc, handle, lines, idx, failed_logins,
          successful_logins, stdout, error, run, fs0, first

vars == <<fs, logName, pc, handle, lines, idx, failed_logins,
          successful_logins, stdout, error, run, fs0, first>>

\* Longest log, in lines, that Init enumerates.
MaxLines == 2

---------------------------------------------------------------------------
(* Tokens *)

FP == "Failed password for"
AP == "Accepted password for"
IU == "invalid user"
SP == " "
NL == "\n"
Q == "\""
BS == "\\"

\* \d : tokens made of digits only
DigitTok == {"22"}
\* [\d\.] : tokens made of digits and dots
IpTok == DigitTok \cup {"10.0.0.5", "192.168.1.1"}
\* \w : tokens made of letters, digits and underscores
WordTok == DigitTok \cup {"bob", "alice", "from", "port", "ssh2", "sshd",
                          "user", "ip", "raw"}
\* str.strip() with no argument removes whitespace
SpaceTok == {SP, NL}

\* The token at position i of s, or "" past either end.
At(s, i) == IF i \in 1..Len(s) THEN s[i] ELSE ""

---------------------------------------------------------------------------
(* The two regular expressions *)

\* Greedy X+ from position i: the last position of the longest run of
\* tokens of class Cls starting at i, or i - 1 when there is none.  What
\* follows X+ in both patterns is a space, which is in no class, so only
\* the longest run can be continued to a match.
RECURSIVE RunEnd(_, _, _)
RunEnd(s, i, Cls) ==
    IF At(s, i) \in Cls THEN RunEnd(s, i + 1, Cls) ELSE i - 1

\* `(\w+) from ([\d\.]+) port \d+ ssh2` matched at position i.
MatchTail(s, i) ==
    LET e == RunEnd(s, i, WordTok)
        f == RunEnd(s, e + 4, IpTok)
        g == RunEnd(s, f + 4, DigitTok)
    IN  IF /\ e >= i
           /\ At(s, e + 1) = SP /\ At(s, e + 2) = "from" /\ At(s, e + 3) = SP
           /\ f >= e + 4
           /\ At(s, f + 1) = SP /\ At(s, f + 2) = "port" /\ At(s, f + 3) = SP
           /\ g >= f + 4
           /\ At(s, g + 1) = SP /\ At(s, g + 2) = "ssh2"
        THEN [ok |-> TRUE, user |-> SubSeq(s, i, e),
              ip |-> SubSeq(s, e + 4, f)]
        ELSE [ok |-> FALSE, user |-> <<>>, ip |-> <<>>]

\* failed_pattern matched at position p: the optional group is tried
\* first (greedy `?`), then the alternative without it.
FailedAt(s, p) ==
    IF At(s, p) = FP /\ At(s, p + 1) = SP
    THEN IF /\ At(s, p + 2) = IU /\ At(s, p + 3) = SP
            /\ MatchTail(s, p + 4).ok
         THEN MatchTail(s, p + 4)
         ELSE MatchTail(s, p + 2)
    ELSE [ok |-> FALSE, user |-> <<>>, ip |-> <<>>]

\* success_pattern matched at position p.
SuccessAt(s, p) ==
    IF At(s, p) = AP /\ At(s, p + 1) = SP
    THEN MatchTail(s, p + 2)
    ELSE [ok |-> FALSE, user |-> <<>>, ip |-> <<>>]

\* pattern.search(line): the leftmost position with a match.
RECURSIVE FailedSearch(_, _)
FailedSearch(s, p) ==
    IF p > Len(s) THEN [ok |-> FALSE, user |-> <<>>, ip |-> <<>>]
    ELSE IF FailedAt(s, p).ok THEN FailedAt(s, p)
    ELSE FailedSearch(s, p + 1)

RECURSIVE SuccessSearch(_, _)
SuccessSearch(s, p) ==
    IF p > Len(s) THEN [ok |-> FALSE, user |-> <<>>, ip |-> <<>>]
    ELSE IF SuccessAt(s, p).ok THEN SuccessAt(s, p)
    ELSE SuccessSearch(s, p + 1)

failed_pattern(line) == FailedSearch(line, 1)
success_pattern(line) == SuccessSearch(line, 1)

---------------------------------------------------------------------------
(* Lines of a file, strip, one step of the loop *)

\* `for line in f`: each line keeps its newline; the last may have none.
\* A line ends at each newline and at the end of the text.
LineEnds(text) == {i \in 1..Len(text) : text[i] = NL \/ i = Len(text)}

SplitLines(text) ==
    LET ends == LineEnds(text)
        EndOf(k) == CHOOSE e \in ends : Cardinality({x \in ends : x <= e}) = k
    IN  [k \in 1..Cardinality(ends) |->
            SubSeq(text, IF k = 1 THEN 1 ELSE EndOf(k - 1) + 1, EndOf(k))]

RECURSIVE LStrip(_)
LStrip(s) ==
    IF s # <<>> /\ Head(s) \in SpaceTok THEN LStrip(Tail(s)) ELSE s

RECURSIVE RStrip(_)
RStrip(s) ==
    IF s # <<>> /\ s[Len(s)] \in SpaceTok
    THEN RStrip(SubSeq(s, 1, Len(s) - 1)) ELSE s

Strip(s) == RStrip(LStrip(s))

Attempt(m, line) == [user |-> m.user, ip |-> m.ip, raw |-> Strip(line)]

\* The loop body without the `continue`: the success check also runs on a
\* line that matched the failed pattern.
ProcessLineNoContinue(line, fl, sl) ==
    LET fm == failed_pattern(line)
        sm == success_pattern(line)
    IN  [failed |-> IF fm.ok THEN Append(fl, Attempt(fm, line)) ELSE fl,
         successful |-> IF sm.ok THEN Append(sl, Attempt(sm, line)) ELSE sl]

\* The loop body with the two checks in the other order.
ProcessLineSuccessFirst(line, fl, sl) ==
    LET fm == failed_pattern(line)
        sm == success_pattern(line)
    IN  IF sm.ok
        THEN [failed |-> fl, successful |-> Append(sl, Attempt(sm, line))]
        ELSE IF fm.ok
        THEN [failed |-> Append(fl, Attempt(fm, line)), successful |-> sl]
        ELSE [failed |-> fl, successful |-> sl]

\* The loop body inserting at the front of the lists.
ProcessLinePrepend(line, fl, sl) ==
    LET fm == failed_pattern(line)
        sm == success_pattern(line)
    IN  IF fm.ok
        THEN [failed |-> <<Attempt(fm, line)>> \o fl, successful |-> sl]
        ELSE IF sm.ok
        THEN [failed |-> fl, successful |-> <<Attempt(sm, line)>> \o sl]
        ELSE [failed |-> fl, successful |-> sl]

\* The loop body skipping an attempt that is already in its list.
ProcessLineDedup(line, fl, sl) ==
    LET fm == failed_pattern(line)
        sm == success_pattern(line)
        In(r, rs) == \E j \in 1..Len(rs) : rs[j] = r
    IN  IF fm.ok
        THEN [failed |-> IF In(Attempt(fm, line), fl) THEN fl
                         ELSE Append(fl, Attempt(fm, line)),
              successful |-> sl]
        ELSE IF sm.ok
        THEN [failed |-> fl,
              successful |-> IF In(Attempt(sm, line), sl) THEN sl
                             ELSE Append(sl, Attempt(sm, line))]
        ELSE [failed |-> fl, successful |-> sl]

\* The loop body: lists after `line`, given the lists before it.
ProcessLine(line, fl, sl) ==
    LET fm == failed_pattern(line)
        sm == success_pattern(line)
    IN  IF fm.ok
        THEN [failed |-> Append(fl, Attempt(fm, line)), successful |-> sl]
        ELSE IF sm.ok
        THEN [failed |-> fl, successful |-> Append(sl, Attempt(sm, line))]
        ELSE [failed |-> fl, successful |-> sl]

---------------------------------------------------------------------------
(* json.dump(obj, f, indent=2) *)

\* A JSON string body: quote and backslash are escaped.
EscapeTok(t) == IF t \in {Q, BS} THEN <<BS, t>> ELSE <<t>>

RECURSIVE Escape(_)
Escape(s) ==
    IF Len(s) = 0 THEN <<>>
    ELSE IF Len(s) = 1 THEN EscapeTok(s[1])
    ELSE LET h == Len(s) \div 2
         IN  Escape(SubSeq(s, 1, h)) \o Escape(SubSeq(s, h + 1, Len(s)))

Member(key, value, last) ==
    <<SP, SP, SP, SP, Q, key, Q, ":", SP, Q>> \o Escape(value)
    \o <<Q>> \o (IF last THEN <<>> ELSE <<",">>) \o <<NL>>

DumpAttempt(r, last) ==
    <<SP, SP, "{", NL>>
    \o Member("user", r.user, FALSE)
    \o Member("ip", r.ip, FALSE)
    \o Member("raw", r.raw, TRUE)
    \o <<SP, SP, "}">> \o (IF last THEN <<>> ELSE <<",">>) \o <<NL>>

RECURSIVE DumpItems(_)
DumpItems(rs) ==
    IF rs = <<>> THEN <<>>
    ELSE DumpAttempt(Head(rs), Len(rs) = 1) \o DumpItems(Tail(rs))

\* A dump that breaks the line inside an empty array too.
JsonDumpBracketLines(rs) == <<"[", NL>> \o DumpItems(rs) \o <<"]">>

\* The text json.dump writes for a list of attempts.
JsonDump(rs) ==
    IF rs = <<>> THEN <<"[", "]">>
    ELSE <<"[", NL>> \o DumpItems(rs) \o <<"]">>

---------------------------------------------------------------------------
(* The directory of the log *)

FailedFile == "failed_logins.json"
SuccessFile == "successful_logins.json"
Names == {"auth.log", FailedFile, SuccessFile}

\* A file's text is the text its bytes decode to; with errors='ignore'
\* every byte sequence decodes, so reading a line raises no decoding error.
Absent == [exists |-> FALSE, text |-> <<>>]
File(t) == [exists |-> TRUE, text |-> t]

\* path.open('a'): the file is created or kept as it is.
OpenAppend(dir, name) ==
    IF dir[name].exists THEN dir ELSE [dir EXCEPT ![name] = File(<<>>)]

\* path.open('w'): the file is created or truncated.
OpenW(dir, name) == [dir EXCEPT ![name] = File(<<>>)]
\* f.write(t) on the file opened by OpenW, up to its close.
Write(dir, name, t) == [dir EXCEPT ![name] = File(@.text \o t)]

---------------------------------------------------------------------------
(* Inputs *)

FailedPhrase(user, ip) ==
    <<FP, SP>> \o user \o <<SP, "from", SP, ip, SP, "port", SP, "22", SP, "ssh2">>
InvalidPhrase(user, ip) ==
    <<FP, SP, IU, SP>> \o user
    \o <<SP, "from", SP, ip, SP, "port", SP, "22", SP, "ssh2">>
AcceptedPhrase(user, ip) ==
    <<AP, SP>> \o user \o <<SP, "from", SP, ip, SP, "port", SP, "22", SP, "ssh2">>

\* Log lines (without their newline): a failed login, one for an invalid
\* user, an accepted login, a line holding an accepted and a failed
\* phrase, an indented line holding two failed phrases, a failed phrase
\* cut short, and the empty line.
Corpus ==
    { FailedPhrase(<<"bob">>, "10.0.0.5"),
      InvalidPhrase(<<"bob">>, "10.0.0.5"),
      AcceptedPhrase(<<"alice">>, "192.168.1.1"),
      AcceptedPhrase(<<"alice">>, "192.168.1.1") \o <<SP>>
          \o FailedPhrase(<<"bob">>, "10.0.0.5"),
      <<SP>> \o FailedPhrase(<<"alice", "22">>, "22") \o <<SP>>
          \o FailedPhrase(<<"bob">>, "10.0.0.5") \o <<SP>>,
      <<"sshd", SP, FP, SP, "bob", SP, "from", SP, "10.0.0.5">>,
      <<>> }

RECURSIVE LogsOfLen(_)
LogsOfLen(n) ==
    IF n = 0 THEN {<<>>}
    ELSE {l \o <<NL>> \o t : l \in Corpus, t \in LogsOfLen(n - 1)}

Logs == UNION {LogsOfLen(n) : n \in 0..MaxLines}

\* What an earlier run left in an output file.
StaleText ==
    JsonDump(<<[user |-> <<"alice">>, ip |-> <<"22">>, raw |-> <<"sshd">>]>>)

---------------------------------------------------------------------------
(* State *)

Init ==
    /\ logName \in Names
    /\ \E log \in {Absent} \cup {File(t) : t \in Logs} :
       \E old \in [Names -> {Absent, File(StaleText)}] :
          fs = [n \in Names |->
                  IF n = logName THEN log
                  ELSE IF n = "auth.log" THEN Absent
                  ELSE old[n]]
    /\ pc = "start"
    /\ handle = "none"
    /\ lines = <<>>
    /\ idx = 1
    /\ failed_logins = <<>>
    /\ successful_logins = <<>>
    /\ stdout = <<>>
    /\ error = "none"
    /\ run = "first"
    /\ fs0 = fs
    /\ first = [log |-> Absent, out |-> fs]

---------------------------------------------------------------------------
(* main, up to the scan *)

\* The existence check without its `return`.
MissingLogNoReturn ==
    /\ pc = "start"
    /\ ~fs[logName].exists
    /\ stdout' = Append(stdout, <<"Error: Log file does not exist", logName>>)
    /\ pc' = "print"
    /\ UNCHANGED <<fs, logName, handle, lines, idx, failed_logins,
                   successful_logins, run, fs0, first, error>>

\* `if not log_path.exists(): print(...); return`
MissingLog ==
    /\ pc = "start"
    /\ ~fs[logName].exists
    /\ stdout' = Append(stdout, <<"Error: Log file does not exist", logName>>)
    /\ pc' = "returned"
    /\ UNCHANGED <<fs, logName, handle, lines, idx, failed_logins,
                   successful_logins, run, fs0, first, error>>

(* parse_auth_log *)

\* The lists are created and the file is opened.
ScanOpen ==
    /\ pc = "start"
    /\ fs[logName].exists
    /\ failed_logins' = <<>>
    /\ successful_logins' = <<>>
    /\ handle' = "open"
    /\ lines' = SplitLines(fs[logName].text)
    /\ idx' = 1
    /\ pc' = "scan"
    /\ UNCHANGED <<fs, logName, stdout, run, fs0, first, error>>

\* open() raises (the path is unreadable): no file object exists.
ScanOpenError ==
    /\ pc = "start"
    /\ fs[logName].exists
    /\ failed_logins' = <<>>
    /\ successful_logins' = <<>>
    /\ error' = "open(log)"
    /\ pc' = "raised"
    /\ UNCHANGED <<fs, logName, handle, lines, idx, stdout, run, fs0, first>>

\* One iteration of `for line in f`.
ScanLine ==
    /\ pc = "scan"
    /\ idx <= Len(lines)
    /\ LET r == ProcessLine(lines[idx], failed_logins, successful_logins)
       IN  /\ failed_logins' = r.failed
           /\ successful_logins' = r.successful
    /\ idx' = idx + 1
    /\ UNCHANGED <<fs, logName, pc, handle, lines, stdout, run, fs0, first, error>>

\* A read error with the file opened outside a `with` block.
ScanReadErrorLeak ==
    /\ pc = "scan"
    /\ error' = "read(log)"
    /\ pc' = "raised"
    /\ UNCHANGED <<fs, logName, handle, lines, idx, failed_logins,
                   successful_logins, stdout, run, fs0, first>>

\* Reading the next line raises: the `with` block closes the file and the
\* error leaves parse_auth_log and main.
ScanReadError ==
    /\ pc = "scan"
    /\ handle' = "closed"
    /\ error' = "read(log)"
    /\ pc' = "raised"
    /\ UNCHANGED <<fs, logName, lines, idx, failed_logins, successful_logins,
                   stdout, run, fs0, first>>

\* End of file: the `with` block closes the file, the lists are returned.
ScanReturn ==
    /\ pc = "scan"
    /\ idx > Len(lines)
    /\ handle' = "closed"
    /\ pc' = "print"
    /\ UNCHANGED <<fs, logName, lines, idx, failed_logins, successful_logins,
                   stdout, run, fs0, first, error>>

(* main, after the scan *)

RECURSIVE AttemptLines(_)
AttemptLines(rs) ==
    IF rs = <<>> THEN <<>>
    ELSE <<<<"User", Head(rs).user, "IP", Head(rs).ip>>>>
         \o AttemptLines(Tail(rs))

\* The two counts, each followed by one line per attempt.
Summary(fl, sl) ==
    <<<<"Failed login attempts found", Len(fl)>>>> \o AttemptLines(fl)
    \o <<<<"Successful login attempts found", Len(sl)>>>> \o AttemptLines(sl)

PrintSummary ==
    /\ pc = "print"
    /\ stdout' = stdout \o Summary(failed_logins, successful_logins)
    /\ pc' = "open_failed"
    /\ UNCHANGED <<fs, logName, handle, lines, idx, failed_logins,
                   successful_logins, run, fs0, first, error>>

\* Both output files opened by one `with` statement.
OpenBothFiles ==
    /\ pc = "open_failed"
    /\ fs' = OpenW(OpenW(fs, FailedFile), SuccessFile)
    /\ pc' = "dump_failed"
    /\ UNCHANGED <<logName, handle, lines, idx, failed_logins,
                   successful_logins, stdout, run, fs0, first, error>>

\* `with failed_file.open('w', ...)`
OpenFailedFile ==
    /\ pc = "open_failed"
    /\ fs' = OpenW(fs, FailedFile)
    /\ pc' = "dump_failed"
    /\ UNCHANGED <<logName, handle, lines, idx, failed_logins,
                   successful_logins, stdout, run, fs0, first, error>>

\* The open raises: nothing is created or truncated.
OpenFailedError ==
    /\ pc = "open_failed"
    /\ error' = "open(failed_file)"
    /\ pc' = "raised"
    /\ UNCHANGED <<fs, logName, handle, lines, idx, failed_logins,
                   successful_logins, stdout, run, fs0, first>>

\* `json.dump(failed_logins, f, indent=2)` and the close of the file.
DumpFailed ==
    /\ pc = "dump_failed"
    /\ fs' = Write(fs, FailedFile, JsonDump(failed_logins))
    /\ pc' = "open_success"
    /\ UNCHANGED <<logName, handle, lines, idx, failed_logins,
                   successful_logins, stdout, run, fs0, first, error>>

\* The write raises: the file keeps what reached it, nothing or a part.
DumpFailedError ==
    /\ pc = "dump_failed"
    /\ \E k \in {0, Len(JsonDump(failed_logins)) \div 2} :
          fs' = Write(fs, FailedFile,
                         SubSeq(JsonDump(failed_logins), 1, k))
    /\ error' = "dump(failed_logins)"
    /\ pc' = "raised"
    /\ UNCHANGED <<logName, handle, lines, idx, failed_logins,
                   successful_logins, stdout, run, fs0, first>>

\* `with success_file.open('w', ...)`
OpenSuccessFile ==
    /\ pc = "open_success"
    /\ fs' = OpenW(fs, SuccessFile)
    /\ pc' = "dump_success"
    /\ UNCHANGED <<logName, handle, lines, idx, failed_logins,
                   successful_logins, stdout, run, fs0, first, error>>

OpenSuccessError ==
    /\ pc = "open_success"
    /\ error' = "open(success_file)"
    /\ pc' = "raised"
    /\ UNCHANGED <<fs, logName, handle, lines, idx, failed_logins,
                   successful_logins, stdout, run, fs0, first>>

\* `json.dump(successful_logins, f, indent=2)`, the last print, the close.
DumpSuccess ==
    /\ pc = "dump_success"
    /\ fs' = Write(fs, SuccessFile, JsonDump(successful_logins))
    /\ stdout' = Append(stdout, <<"Parsed data saved to", FailedFile, SuccessFile>>)
    /\ pc' = "returned"
    /\ UNCHANGED <<logName, handle, lines, idx, failed_logins,
                   successful_logins, run, fs0, first, error>>

DumpSuccessError ==
    /\ pc = "dump_success"
    /\ \E k \in {0, Len(JsonDump(successful_logins)) \div 2} :
          fs' = Write(fs, SuccessFile,
                         SubSeq(JsonDump(successful_logins), 1, k))
    /\ error' = "dump(successful_logins)"
    /\ pc' = "raised"
    /\ UNCHANGED <<logName, handle, lines, idx, failed_logins,
                   successful_logins, stdout, run, fs0, first>>

\* The program is run a second time on the same path, after the first run
\* returned.
SecondRun ==
    /\ pc = "returned"
    /\ run = "first"
    /\ run' = "second"
    /\ first' = [log |-> fs0[logName], out |-> fs]
    /\ fs0' = fs
    /\ pc' = "start"
    /\ handle' = "none"
    /\ lines' = <<>>
    /\ idx' = 1
    /\ failed_logins' = <<>>
    /\ successful_logins' = <<>>
    /\ stdout' = <<>>
    /\ UNCHANGED <<fs, logName, error>>

Next ==
    \/ MissingLog
    \/ ScanOpen
    \/ ScanOpenError
    \/ ScanLine
    \/ ScanReadError
    \/ ScanReturn
    \/ PrintSummary
    \/ OpenFailedFile
    \/ OpenFailedError
    \/ DumpFailed
    \/ DumpFailedError
    \/ OpenSuccessFile
    \/ OpenSuccessError
    \/ DumpSuccess
    \/ DumpSuccessError
    \/ SecondRun

Spec == Init /\ [][Next]_vars

---------------------------------------------------------------------------
(* Properties *)

IsFailed(line) == failed_pattern(line).ok
IsSuccess(line) == success_pattern(line).ok

\* The lines the loop has consumed so far.
Done == 1..(idx - 1)

\* The members of a set of line numbers, in increasing order.
Ascending(S) ==
    [j \in 1..Cardinality(S) |->
        CHOOSE e \in S : Cardinality({x \in S : x <= e}) = j]

\* After the scan has returned to main.
AfterScan == pc \in {"print", "open_failed", "dump_failed", "open_success",
                      "dump_success", "returned"}

Empty == <<"[", "]">>

\* C1: a step of the loop on a line that matches the failed pattern adds
\* that line's attempt to `failed` and leaves `successful` as it was,
\* whatever else the line holds.
C1_FailedLineOnlyInFailed ==
    [][(pc = "scan" /\ idx' = idx + 1 /\ IsFailed(lines[idx]))
        => /\ failed_logins' =
                Append(failed_logins,
                       Attempt(failed_pattern(lines[idx]), lines[idx]))
           /\ successful_logins' = successful_logins]_vars

\* A line holding a match of each pattern has been consumed and only
\* `failed` has grown.
C1_Witness ==
    /\ pc = "scan" /\ idx = 2
    /\ IsFailed(lines[1]) /\ IsSuccess(lines[1])
    /\ Len(failed_logins) = 1 /\ successful_logins = <<>>

\* C2: after every prefix of the scan, the j-th record of each list is the
\* attempt of the j-th line, in file order, that went to that list.
C2_OrderPreserved ==
    LET fsrc == Ascending({i \in Done : IsFailed(lines[i])})
        ssrc == Ascending({i \in Done :
                             ~IsFailed(lines[i]) /\ IsSuccess(lines[i])})
    IN  /\ Len(failed_logins) = Len(fsrc)
        /\ \A j \in 1..Len(fsrc) :
              failed_logins[j] =
                 Attempt(failed_pattern(lines[fsrc[j]]), lines[fsrc[j]])
        /\ Len(successful_logins) = Len(ssrc)
        /\ \A j \in 1..Len(ssrc) :
              successful_logins[j] =
                 Attempt(success_pattern(lines[ssrc[j]]), lines[ssrc[j]])

\* Two different failed attempts were recorded, from two lines.
C2_Witness ==
    /\ pc = "print"
    /\ Len(failed_logins) = 2
    /\ failed_logins[1] # failed_logins[2]
    /\ failed_logins[1].raw = Strip(lines[1])
    /\ failed_logins[2].raw = Strip(lines[2])

\* C3: when the log path does not exist, main prints the error and
\* returns: it does not scan, it raises nothing, and every file of the
\* directory stays as it was.
C3_MissingLogReturns ==
    ~fs0[logName].exists =>
        /\ pc \in {"start", "returned"}
        /\ error = "none"
        /\ handle = "none"
        /\ fs = fs0
        /\ pc = "returned" =>
              stdout = <<<<"Error: Log file does not exist", logName>>>>

\* main has returned for a missing log beside an existing output file.
C3_Witness ==
    /\ pc = "returned"
    /\ ~fs0[logName].exists
    /\ fs0[FailedFile] = File(StaleText)
    /\ fs[FailedFile] = File(StaleText)
    /\ Len(stdout) = 1

\* C4: for a log none of whose lines matches a pattern, the scan returns
\* two empty lists and, once main has returned, both output files hold
\* `[]`, whatever they held before.
C4_NoMatchWritesEmptyArrays ==
    (/\ fs0[logName].exists
     /\ \A i \in 1..Len(SplitLines(fs0[logName].text)) :
           LET l == SplitLines(fs0[logName].text)[i]
           IN  ~IsFailed(l) /\ ~IsSuccess(l))
    => /\ AfterScan => failed_logins = <<>> /\ successful_logins = <<>>
       /\ pc = "returned" =>
             fs[FailedFile] = File(Empty) /\ fs[SuccessFile] = File(Empty)

\* A log of two lines without a match has been scanned and both stale
\* output files have been replaced.
C4_Witness ==
    /\ pc = "returned" /\ fs0[logName].exists
    /\ Len(lines) = 2
    /\ failed_logins = <<>> /\ successful_logins = <<>>
    /\ fs0[FailedFile] = File(StaleText)
    /\ fs0[SuccessFile] = File(StaleText)
    /\ fs[FailedFile] = File(Empty)
    /\ fs[SuccessFile] = File(Empty)

\* C5: when the second run starts on the log as the first run found it,
\* it leaves both output files exactly as the first run left them.
C5_SecondRunSameOutput ==
    (run = "second" /\ pc = "returned" /\ fs0[logName] = first.log)
    => /\ fs[FailedFile] = first.out[FailedFile]
       /\ fs[SuccessFile] = first.out[SuccessFile]

\* The second run over an unchanged log with attempts of both kinds has
\* returned.
C5_Witness ==
    /\ run = "second" /\ pc = "returned"
    /\ fs0[logName].exists /\ fs0[logName] = first.log
    /\ Len(failed_logins) >= 1 /\ Len(successful_logins) >= 1
    /\ fs[FailedFile] = File(JsonDump(failed_logins))

\* parse_auth_log with the `continue` removed, on a whole list of lines.
RECURSIVE ParseNoContinue(_, _, _)
ParseNoContinue(ls, fl, sl) ==
    IF ls = <<>> THEN [failed |-> fl, successful |-> sl]
    ELSE LET r == ProcessLineNoContinue(Head(ls), fl, sl)
         IN  ParseNoContinue(Tail(ls), r.failed, r.successful)

Result == [failed |-> failed_logins, successful |-> successful_logins]

MatchesBoth(line) == IsFailed(line) /\ IsSuccess(line)

\* C6, as stated: no line matches both patterns, and the scan returns
\* what it would return without the `continue`.
C6_PatternsDisjoint ==
    /\ \A i \in 1..Len(lines) : ~MatchesBoth(lines[i])
    /\ pc = "print" => Result = ParseNoContinue(lines, <<>>, <<>>)

\* C6, amended: the two patterns never match at the same position of a
\* line, but one line can hold a match of each; the scan returns what it
\* would return without the `continue` exactly when no line of the log
\* matches both patterns, and `failed` is the same either way.
C6_ContinueDecidesLinesMatchingBoth ==
    /\ \A i \in 1..Len(lines) : \A p \in 1..Len(lines[i]) :
          ~(FailedAt(lines[i], p).ok /\ SuccessAt(lines[i], p).ok)
    /\ pc = "print" =>
          /\ (Result = ParseNoContinue(lines, <<>>, <<>>))
                <=> (\A i \in 1..Len(lines) : ~MatchesBoth(lines[i]))
          /\ failed_logins = ParseNoContinue(lines, <<>>, <<>>).failed

\* The scan of a log with a line matching both patterns has returned, and
\* without the `continue` it would have returned one more successful
\* attempt.
C6_Witness ==
    /\ pc = "print"
    /\ \E i \in 1..Len(lines) : MatchesBoth(lines[i])
    /\ Len(ParseNoContinue(lines, <<>>, <<>>).successful)
          = Len(successful_logins) + 1

\* C7: one record per matching line: after every prefix of the scan
\* `failed` has as many records as lines consumed that match the failed
\* pattern, `successful` as many as lines consumed that match the
\* successful pattern and not the failed one; equal lines and lines with
\* several matches count once each.
C7_OneRecordPerMatchingLine ==
    /\ Len(failed_logins) = Cardinality({i \in Done : IsFailed(lines[i])})
    /\ Len(successful_logins) =
          Cardinality({i \in Done : IsSuccess(lines[i]) /\ ~IsFailed(lines[i])})

\* Two equal lines, each holding two failed phrases, gave two equal
\* records.
C7_Witness ==
    /\ pc = "print"
    /\ Len(lines) = 2 /\ lines[1] = lines[2]
    /\ FailedAt(lines[1], 2).ok
    /\ \E p \in 3..Len(lines[1]) : FailedAt(lines[1], p).ok
    /\ Len(failed_logins) = 2
    /\ failed_logins[1] = failed_logins[2]

\* C8: the log is open only while the loop runs: once parse_auth_log has
\* returned or raised, the file is closed, or was never opened.
C8_LogClosedOnExit ==
    /\ handle = "open" => pc = "scan"
    /\ (AfterScan /\ fs0[logName].exists) => handle = "closed"
    /\ error = "read(log)" => handle = "closed"
    /\ error = "open(log)" => handle = "none"

\* A read error after the first line: the file is closed.
C8_Witness ==
    /\ pc = "raised" /\ error = "read(log)"
    /\ idx = 2 /\ Len(lines) = 2
    /\ handle = "closed"

\* C9, as stated: when main has returned or raised, the log holds what it
\* held before, and no file but the two output files has changed.
C9_InputUnchanged ==
    /\ pc \in {"returned", "raised"} => fs[logName] = fs0[logName]
    /\ \A n \in Names \ {FailedFile, SuccessFile} : fs[n] = fs0[n]

\* C10: no file changes before the scan has returned and the summary is
\* printed; successful_logins.json is untouched until failed_logins.json
\* holds the whole dump; an error of the scan leaves every file as it was,
\* and an error on failed_logins.json ends main with
\* successful_logins.json as it was.
C10_WriteOrder ==
    /\ pc \in {"start", "scan", "print", "open_failed"} => fs = fs0
    /\ pc \in {"dump_failed", "open_success"} =>
          fs[SuccessFile] = fs0[SuccessFile]
    /\ pc \in {"open_success", "dump_success"} =>
          fs[FailedFile] = File(JsonDump(failed_logins))
    /\ error \in {"open(log)", "read(log)"} => fs = fs0
    /\ error \in {"open(failed_file)", "dump(failed_logins)"} =>
          fs[SuccessFile] = fs0[SuccessFile]
    /\ error # "none" <=> pc = "raised"

\* The dump to failed_logins.json raised after the file was truncated,
\* and the old successful_logins.json is still there.
C10_Witness ==
    /\ pc = "raised" /\ error = "dump(failed_logins)"
    /\ fs0[SuccessFile] = File(StaleText)
    /\ fs[SuccessFile] = File(StaleText)
    /\ fs[FailedFile] # fs0[FailedFile]

====
